---- MODULE Spec2Model ----
(***************************************************************************)
(* A model of the notebook exporter (JupyterExporter.translateToNotebook   *)
(* and its helpers) and of the console's InputHistory.                     *)
(*                                                                         *)
(* Three specifications share the variables below:                         *)
(*   Spec        - export: the inputs of one export are drawn by Init and  *)
(*                 translateToNotebook is called on them repeatedly;       *)
(*   SpecPrune   - pruneSource applied repeatedly to one cell source held  *)
(*                 in both of its representations;                         *)
(*   SpecHistory - InputHistory driven by add/completeUp/completeDown.     *)
(* A specification leaves the variables of the other two at their idle     *)
(* values.                                                                 *)
(***************************************************************************)
EXTENDS Integers, Sequences, FiniteSets

VARIABLES
    \* ---- export (Spec)
    cells,              \* ICell[] handed to translateToNotebook
    changeDirectory,    \* the optional target path (EmptyPath = not given)
    workspaceFolders,   \* IWorkspaceService.workspaceFolders (fsPaths)
    existing,           \* the files IFileSystem.fileExists answers true for
    interpreter,        \* the answer of getUsableJupyterPython
    injected,           \* per call: <<the synthetic cell>> if one was prepended, else <<>>
    docs,               \* the documents returned, in call order
    \* ---- marker stripping (SpecPrune)
    lines,              \* the original source as a sequence of lines
    ps,                 \* the source stored as one string, pruned n times
    pa,                 \* the source stored as a line sequence, pruned n times
    prevPs,             \* ps before the latest pruning
    prevPa,             \* pa before the latest pruning
    n,                  \* prunings applied so far
    \* ---- input history (SpecHistory)
    historyStack,       \* submitted entries, newest first
    cursor,             \* 0 = at the end, k = pointing at the k-th newest entry
    lastOp,             \* observer: the last call made
    arg,                \* observer: its argument
    result,             \* observer: what it returned
    preCursor,          \* observer: the cursor when it was called
    addKind,            \* observer: the add that the run of completeUp calls follows:
                        \*   "new" (entry not yet in the history), "old", or "none"
    cursorAtAdd,        \* observer: the cursor when that add was called
    upsSinceAdd         \* observer: the length of that run of completeUp calls

exportVars == <<cells, changeDirectory, workspaceFolders, existing, interpreter,
                injected, docs>>
pruneVars == <<lines, ps, pa, prevPs, prevPa, n>>
historyVars == <<historyStack, cursor, lastOp, arg, result, preCursor, addKind,
                 cursorAtAdd, upsSinceAdd>>
vars == <<exportVars, pruneVars, historyVars>>

(***************************************************************************)
(* Strings are sequences of one-character strings.                         *)
(***************************************************************************)
NL == "\n"

\* A cell-boundary marker token, taken as one symbol of the text.
MARK == "#%%"

Char == {MARK, "x", NL}

\* String.prototype.split(sep) for a one-character separator.
RECURSIVE split(_, _)
split(s, sep) ==
    IF \A i \in 1..Len(s) : s[i] # sep
    THEN <<s>>
    ELSE LET i == CHOOSE k \in 1..Len(s) :
                      s[k] = sep /\ \A j \in 1..(k - 1) : s[j] # sep
         IN <<SubSeq(s, 1, i - 1)>> \o split(SubSeq(s, i + 1, Len(s)), sep)

\* Array.prototype.join(sep).
RECURSIVE join(_, _)
join(a, sep) ==
    IF Len(a) = 0 THEN <<>>
    ELSE IF Len(a) = 1 THEN a[1]
    ELSE a[1] \o sep \o join(Tail(a), sep)

\* nbformat.MultilineString: string | string[].
StrSource(s) == [isArray |-> FALSE, str |-> s, arr |-> <<>>]
ArrSource(a) == [isArray |-> TRUE, str |-> <<>>, arr |-> a]

\* source.toString(): a string is itself, an array is its elements joined by ",".
toString(source) ==
    IF source.isArray THEN join(source.arr, <<",">>) ELSE source.str

\* CellMatcher.isCell: the line starts with a boundary marker.
isCell(line) == Len(line) > 0 /\ line[1] = MARK

\* A slip in pruneSource: the first line goes whether or not it is a marker.
pruneSourceAlways(source) ==
    IF source.isArray /\ Len(source.arr) > 0
    THEN ArrSource(Tail(source.arr))
    ELSE LET parts == split(toString(source), NL)
             array == [i \in 1..Len(parts) |-> parts[i] \o <<NL>>]
         IN ArrSource(Tail(array))

pruneSource(source) ==
    IF source.isArray /\ Len(source.arr) > 0
    THEN IF isCell(source.arr[1]) THEN ArrSource(Tail(source.arr)) ELSE source
    ELSE LET parts == split(toString(source), NL)
             array == [i \in 1..Len(parts) |-> parts[i] \o <<NL>>]
         IN IF Len(array) > 0 /\ isCell(array[1])
            THEN ArrSource(Tail(array))
            ELSE source

(***************************************************************************)
(* Paths.  A path is its root ("C:" as <<"C", ":">>, empty for a relative  *)
(* path) and its segments; path.* follow Node's win32 rules, where two     *)
(* drives have no relative form.                                           *)
(***************************************************************************)
SEP == "\\"

Path(root, segs) == [root |-> root, segs |-> segs]

\* The empty string: what an absent (undefined) path is tested like.
EmptyPath == Path(<<>>, <<>>)

\* The path as the string the code sees.
pathString(p) ==
    IF p.root = <<>> THEN join(p.segs, <<SEP>>)
    ELSE p.root \o <<SEP>> \o join(p.segs, <<SEP>>)

\* JavaScript truthiness of a string.
truthy(s) == s # <<>>

lowerChar(c) ==
    IF c = "W" THEN "w" ELSE IF c = "C" THEN "c" ELSE IF c = "D" THEN "d" ELSE c

toLowerCase(s) == [i \in 1..Len(s) |-> lowerChar(s[i])]

startsWith(s, prefix) ==
    Len(prefix) <= Len(s) /\ SubSeq(s, 1, Len(prefix)) = prefix

isAbsolute(p) == p.root # <<>>

dirname(p) ==
    IF Len(p.segs) >= 2 THEN Path(p.root, SubSeq(p.segs, 1, Len(p.segs) - 1))
    ELSE IF isAbsolute(p) THEN Path(p.root, <<>>)
    ELSE Path(<<>>, <<<<".">>>>)

lowerSegs(p) == [i \in 1..Len(p.segs) |-> toLowerCase(p.segs[i])]

\* The number of leading segments two paths share, compared without case.
commonSegs(a, b) ==
    LET m == IF Len(a.segs) < Len(b.segs) THEN Len(a.segs) ELSE Len(b.segs)
        agree(k) == \A i \in 1..k : lowerSegs(a)[i] = lowerSegs(b)[i]
    IN CHOOSE k \in 0..m : agree(k) /\ (k = m \/ ~agree(k + 1))

\* path.relative(from, to) for two absolute paths.
relative(from, to) ==
    IF toLowerCase(from.root) # toLowerCase(to.root) THEN to
    ELSE LET c == commonSegs(from, to)
             ups == [i \in 1..(Len(from.segs) - c) |-> <<".", ".">>]
         IN Path(<<>>, ups \o SubSeq(to.segs, c + 1, Len(to.segs)))

(***************************************************************************)
(* Numbers.  A JavaScript number is a value or NaN.                        *)
(***************************************************************************)
Num(v) == [isNaN |-> FALSE, val |-> v]
NaN == [isNaN |-> TRUE, val |-> 0]

Digits == {"0", "1", "2", "3", "4", "5", "6", "7", "8", "9"}

digitValue(c) ==
    CASE c = "0" -> 0 [] c = "1" -> 1 [] c = "2" -> 2 [] c = "3" -> 3
      [] c = "4" -> 4 [] c = "5" -> 5 [] c = "6" -> 6 [] c = "7" -> 7
      [] c = "8" -> 8 [] c = "9" -> 9

RECURSIVE decimal(_)
decimal(s) ==
    IF Len(s) = 0 THEN 0
    ELSE 10 * decimal(SubSeq(s, 1, Len(s) - 1)) + digitValue(s[Len(s)])

\* Number(s) for a string of digits and letters: "" is 0, digits are their value,
\* anything else is NaN.
Number(s) ==
    IF \A i \in 1..Len(s) : s[i] \in Digits THEN Num(decimal(s)) ELSE NaN

\* String.prototype.indexOf(c), zero-based, -1 when c does not occur.
indexOf(s, c) ==
    IF \A i \in 1..Len(s) : s[i] # c THEN 0 - 1
    ELSE (CHOOSE k \in 1..Len(s) : s[k] = c /\ \A j \in 1..(k - 1) : s[j] # c) - 1

\* String.prototype.substr(0, length): a negative length gives "".
substr0(s, length) ==
    IF length <= 0 THEN <<>>
    ELSE SubSeq(s, 1, IF length < Len(s) THEN length ELSE Len(s))

(***************************************************************************)
(* Cells and the exporter.                                                 *)
(***************************************************************************)
\* ICell, with the fields of its data that export reads or copies.
Cell(type, source, version, id, file) ==
    [data |-> [cell_type |-> type, source |-> source, version |-> version,
               execution_count |-> 0],
     id |-> id, file |-> file, line |-> 0, state |-> "finished"]

\* localize.DataScience.exportChangeDirectoryComment(): a comment line that is
\* no boundary marker.
exportChangeDirectoryComment == <<"#", "c">>

\* CodeSnippits.ChangeDirectory.join(os.EOL).format(comment, directory).
exportChangeDirectory(directory) ==
    exportChangeDirectoryComment \o <<NL>> \o <<"c", "d", " ">> \o pathString(directory)

\* IFileSystem.fileExists.
fileExists(file) == file \in existing

\* IWorkspaceService.hasWorkspaceFolders.
hasWorkspaceFolders == Len(workspaceFolders) > 0

\* The first workspace folder whose path the file name starts with, or EmptyPath.
RECURSIVE matchingFolder(_, _)
matchingFolder(filename, folders) ==
    IF Len(folders) = 0 THEN EmptyPath
    ELSE IF startsWith(toLowerCase(pathString(filename)),
                       toLowerCase(pathString(folders[1])))
    THEN folders[1]
    ELSE matchingFolder(filename, Tail(folders))

\* EmptyPath stands for the undefined it returns when no cell qualifies.
RECURSIVE firstWorkspaceFolder(_)
firstWorkspaceFolder(cs) ==
    IF Len(cs) = 0 THEN EmptyPath
    ELSE LET filename == cs[1].file
             folder == matchingFolder(filename, workspaceFolders)
         IN IF isAbsolute(filename) /\ fileExists(filename) /\ folder # EmptyPath
            THEN folder
            ELSE firstWorkspaceFolder(Tail(cs))

\* A slip in calculateDirectoryChange: the relative path is returned unchecked.
calculateDirectoryChangeUnchecked(notebookFile, cs) ==
    LET notebookFilePath == dirname(notebookFile)
        workspacePath == IF hasWorkspaceFolders THEN firstWorkspaceFolder(cs)
                         ELSE EmptyPath
    IN IF hasWorkspaceFolders
          /\ truthy(pathString(workspacePath)) /\ isAbsolute(workspacePath)
          /\ truthy(pathString(notebookFilePath)) /\ isAbsolute(notebookFilePath)
       THEN relative(notebookFilePath, workspacePath)
       ELSE EmptyPath

\* EmptyPath stands for the undefined it returns when there is no change.
calculateDirectoryChange(notebookFile, cs) ==
    LET notebookFilePath == dirname(notebookFile)
        workspacePath == IF hasWorkspaceFolders THEN firstWorkspaceFolder(cs)
                         ELSE EmptyPath
        directoryChange ==
            IF hasWorkspaceFolders
               /\ truthy(pathString(workspacePath)) /\ isAbsolute(workspacePath)
               /\ truthy(pathString(notebookFilePath)) /\ isAbsolute(notebookFilePath)
            THEN relative(notebookFilePath, workspacePath)
            ELSE EmptyPath
    IN IF truthy(pathString(directoryChange)) /\ ~isAbsolute(directoryChange)
       THEN directoryChange
       ELSE EmptyPath

\* The synthetic cell of addDirectoryChangeCell, given the uuid() it draws.
directoryChangeCell(directory, id) ==
    Cell("code", StrSource(exportChangeDirectory(directory)), <<>>, id, EmptyPath)

\* A slip in addDirectoryChangeCell: the cell is put last.
addDirectoryChangeCellLast(cs, file, id) ==
    LET directory == calculateDirectoryChange(file, cs)
    IN IF truthy(pathString(directory))
       THEN cs \o <<directoryChangeCell(directory, id)>>
       ELSE cs

addDirectoryChangeCell(cs, file, id) ==
    LET directory == calculateDirectoryChange(file, cs)
    IN IF truthy(pathString(directory))
       THEN <<directoryChangeCell(directory, id)>> \o cs
       ELSE cs

\* A slip in pruneCell: the whole cell is copied, its id included.
pruneCellWithId(cell) ==
    LET copy == [cell.data EXCEPT !.source = pruneSource(cell.data.source)]
    IN [f \in DOMAIN copy \cup {"id"} |-> IF f = "id" THEN cell.id ELSE copy[f]]

pruneCell(cell) ==
    [cell.data EXCEPT !.source = pruneSource(cell.data.source)]

\* A slip in pruneCells: no cell is filtered out.
pruneCellsUnfiltered(cs) ==
    [i \in 1..Len(cs) |-> pruneCell(cs[i])]

pruneCells(cs) ==
    LET kept == SelectSeq(cs, LAMBDA c : c.data.cell_type # "sys_info")
    IN [i \in 1..Len(kept) |-> pruneCell(kept[i])]

\* getUsableJupyterPython: no interpreter, one without a version, or one with.
NoInterpreter == [present |-> FALSE, hasVersion |-> FALSE, major |-> 0]
Interpreter(hasVersion, major) ==
    [present |-> TRUE, hasVersion |-> hasVersion, major |-> major]

\* A slip in extractPythonMainVersion: the interpreter's answer is ignored.
extractPythonMainVersionDefault(cs) ==
    LET sysInfoCells == SelectSeq(cs, LAMBDA c : c.data.cell_type = "sys_info")
        fullVersionString ==
            IF Len(sysInfoCells) > 0 THEN sysInfoCells[1].data.version ELSE <<>>
    IN IF Len(sysInfoCells) > 0 /\ truthy(fullVersionString)
       THEN Number(substr0(fullVersionString, indexOf(fullVersionString, ".")))
       ELSE Num(3)

extractPythonMainVersion(cs) ==
    LET sysInfoCells == SelectSeq(cs, LAMBDA c : c.data.cell_type = "sys_info")
        fullVersionString ==
            IF Len(sysInfoCells) > 0 THEN sysInfoCells[1].data.version ELSE <<>>
    IN IF Len(sysInfoCells) > 0 /\ truthy(fullVersionString)
       THEN Number(substr0(fullVersionString, indexOf(fullVersionString, ".")))
       ELSE IF interpreter.present /\ interpreter.hasVersion
            THEN Num(interpreter.major)
            ELSE Num(3)

\* The document translateToNotebook returns, given the uuid() a directory-change
\* cell would get.
translateToNotebook(cs, target, id) ==
    LET augmented == IF truthy(pathString(target))
                     THEN addDirectoryChangeCell(cs, target, id)
                     ELSE cs
        pythonNumber == extractPythonMainVersion(augmented)
        metadata ==
            [language_info |->
                 [name |-> "python",
                  codemirror_mode |-> [name |-> "ipython", version |-> pythonNumber]],
             orig_nbformat |-> 2,
             file_extension |-> ".py",
             mimetype |-> "text/x-python",
             name |-> "python",
             npconvert_exporter |-> "python",
             pygments_lexer |-> <<"ipython", pythonNumber>>,
             version |-> pythonNumber]
    IN [cells |-> pruneCells(augmented),
        nbformat |-> 4,
        nbformat_minor |-> 2,
        metadata |-> metadata]

(***************************************************************************)
(* InputHistory.  The history is its entries, newest first, and a cursor:  *)
(* 0 is "at the end", k points at the k-th newest entry.  Each operation   *)
(* gives the history after the call and what the call returns.             *)
(***************************************************************************)
History(stack, pos, returned) == [stack |-> stack, cursor |-> pos, result |-> returned]

\* new InputHistory().
NewHistory == History(<<>>, 0, "")

\* A slip in add: the cursor is left where it was.
addKeepingCursor(h, entry) ==
    IF Len(h.stack) > 0 /\ h.cursor = 1 /\ h.stack[1] = entry
    THEN History(h.stack, h.cursor, "")
    ELSE History(<<entry>> \o h.stack, IF h.cursor = 0 THEN 0 ELSE h.cursor + 1, "")

\* add(entry): the entry becomes the newest one and the cursor goes back to the
\* end; re-submitting the newest entry while the cursor points at it changes
\* nothing.
add(h, entry) ==
    IF Len(h.stack) > 0 /\ h.cursor = 1 /\ h.stack[1] = entry
    THEN History(h.stack, h.cursor, "")
    ELSE History(<<entry>> \o h.stack, 0, "")

\* completeUp(current): one step toward older entries; at the oldest entry, or
\* with no entries, current comes back and nothing moves.
completeUp(h, current) ==
    IF h.cursor < Len(h.stack)
    THEN History(h.stack, h.cursor + 1, h.stack[h.cursor + 1])
    ELSE History(h.stack, h.cursor, current)

\* A slip in completeDown: the empty string comes back at the end, and the
\* cursor is put at the end.
completeDownEmpty(h, current) ==
    IF h.cursor > 1
    THEN History(h.stack, h.cursor - 1, h.stack[h.cursor - 1])
    ELSE History(h.stack, 0, "")

\* completeDown(current): one step toward newer entries; at the end, or at the
\* newest entry, current comes back and nothing moves.
completeDown(h, current) ==
    IF h.cursor > 1
    THEN History(h.stack, h.cursor - 1, h.stack[h.cursor - 1])
    ELSE History(h.stack, h.cursor, current)

\* One call of the test 'input history': the operation, its argument, and the
\* value the test asserts ("-" where it asserts none).
Call(op, a, expected) == [op |-> op, arg |-> a, expected |-> expected]

TestCalls1 ==
    <<Call("add", "1", "-"), Call("add", "2", "-"), Call("add", "3", "-"),
      Call("add", "4", "-"), Call("completeDown", "5", "5"), Call("add", "5", "-"),
      Call("completeUp", "", "5"), Call("add", "5", "-"), Call("completeUp", "5", "4"),
      Call("completeUp", "4", "3"), Call("completeUp", "2", "2"),
      Call("completeUp", "1", "1"), Call("completeUp", "", ""),
      Call("add", "6", "-"), Call("completeUp", "", "6"), Call("completeUp", "", "5"),
      Call("completeUp", "", "4"), Call("completeUp", "", "3"),
      Call("completeUp", "", "2"), Call("completeUp", "", "1")>>

TestCalls2 ==
    <<Call("add", "1", "-"), Call("add", "2", "-"), Call("add", "3", "-"),
      Call("add", "4", "-"), Call("completeDown", "5", "5"),
      Call("completeDown", "", ""), Call("completeUp", "1", "4"),
      Call("completeDown", "4", "4"), Call("completeDown", "4", "4"),
      Call("completeUp", "1", "3"), Call("completeUp", "4", "2"),
      Call("completeDown", "3", "3"), Call("completeDown", "", "4"),
      Call("completeUp", "", "3"), Call("completeUp", "", "2"),
      Call("completeUp", "", "1"), Call("completeUp", "", ""),
      Call("completeUp", "1", "1"), Call("completeDown", "1", "2"),
      Call("completeDown", "2", "3"), Call("completeDown", "3", "4"),
      Call("completeDown", "", ""), Call("add", "5", "-"),
      Call("completeUp", "1", "5"), Call("completeUp", "1", "4"),
      Call("completeUp", "1", "3"), Call("completeUp", "1", "2"),
      Call("completeUp", "1", "1"), Call("completeUp", "1", "1"),
      Call("completeDown", "1", "2")>>

apply(h, call) ==
    CASE call.op = "add" -> add(h, call.arg)
      [] call.op = "completeUp" -> completeUp(h, call.arg)
      [] call.op = "completeDown" -> completeDown(h, call.arg)

\* The calls of a test run on a history, each returning what the test asserts.
RECURSIVE passes(_, _)
passes(h, testCalls) ==
    IF Len(testCalls) = 0 THEN TRUE
    ELSE LET after == apply(h, testCalls[1])
         IN /\ (testCalls[1].op = "add" \/ after.result = testCalls[1].expected)
            /\ passes(after, Tail(testCalls))

\* The model of InputHistory passes the repository's test of it.
TestInputHistoryPasses ==
    passes(NewHistory, TestCalls1) /\ passes(NewHistory, TestCalls2)

(***************************************************************************)
(* Idle values of each specification's variables.                          *)
(***************************************************************************)
ExportIdle ==
    /\ cells = <<>> /\ changeDirectory = EmptyPath /\ workspaceFolders = <<>>
    /\ existing = {} /\ interpreter = NoInterpreter
    /\ injected = <<>> /\ docs = <<>>

PruneIdle ==
    /\ lines = <<>> /\ ps = StrSource(<<>>) /\ pa = ArrSource(<<>>)
    /\ prevPs = StrSource(<<>>) /\ prevPa = ArrSource(<<>>) /\ n = 0

HistoryIdle ==
    /\ historyStack = <<>> /\ cursor = 0 /\ lastOp = "new" /\ arg = ""
    /\ result = "" /\ preCursor = 0 /\ addKind = "none" /\ cursorAtAdd = 0
    /\ upsSinceAdd = 0

(***************************************************************************)
(* Spec: export.                                                           *)
(***************************************************************************)
MaxCells == 2
MaxCalls == 2

DriveC == <<"C", ":">>
DriveD == <<"D", ":">>

\* Origin files of cells: none, one under C:\w, one under C:\wx.
Files ==
    {EmptyPath,
     Path(DriveC, <<<<"w">>, <<"a">>>>),
     Path(DriveC, <<<<"w", "x">>, <<"a">>>>)}

\* Target documents: not given, beside the workspace, on another drive, in the
\* workspace root itself.
Targets ==
    {EmptyPath,
     Path(DriveC, <<<<"o">>, <<"n">>>>),
     Path(DriveD, <<<<"o">>, <<"n">>>>),
     Path(DriveC, <<<<"w">>, <<"n">>>>)}

FolderLists ==
    {<<>>,
     <<Path(DriveC, <<<<"w">>>>)>>,
     <<Path(DriveD, <<<<"v">>>>), Path(DriveC, <<<<"W">>>>)>>}

ExistingSets == {{}, Files \ {EmptyPath}}

Interpreters == {NoInterpreter, Interpreter(FALSE, 0), Interpreter(TRUE, 2)}

\* Version strings of sys_info cells: dotted, without a dot, not a number, empty.
Versions == {<<"3", ".", "7">>, <<"3", "7">>, <<"x", ".", "7">>, <<>>}

\* The cells an input sequence is drawn from: code cells whose source is one
\* string, from each origin file; a markdown cell whose source is a line
\* sequence; sys_info cells with each version string.  Ids are given by position.
CellChoices ==
    {Cell("code", StrSource(<<MARK, NL, "x">>), <<>>, "", f) : f \in Files}
    \cup {Cell("markdown", ArrSource(<<<<MARK, NL>>, <<"x">>>>), <<>>, "", EmptyPath)}
    \cup {Cell("sys_info", StrSource(<<>>), v, "", EmptyPath) : v \in Versions}

CellIds == [i \in 1..(MaxCells + 1) |-> <<"c", i>>]

UUIDs == {<<"u", i>> : i \in 1..(MaxCalls + 1)}

withIds(cs) == [i \in 1..Len(cs) |-> [cs[i] EXCEPT !.id = CellIds[i]]]

Init ==
    /\ \E k \in 0..MaxCells : \E cs \in [1..k -> CellChoices] : cells = withIds(cs)
    /\ changeDirectory \in Targets
    /\ workspaceFolders \in FolderLists
    /\ existing \in ExistingSets
    /\ interpreter \in Interpreters
    /\ injected = <<>>
    /\ docs = <<>>
    /\ PruneIdle
    /\ HistoryIdle

\* One call of translateToNotebook(cells, changeDirectory).
TranslateToNotebook ==
    /\ Len(docs) < MaxCalls
    /\ \E id \in UUIDs :
        /\ \A i \in 1..Len(injected) : \A j \in 1..Len(injected[i]) : injected[i][j].id # id
        /\ docs' = Append(docs, translateToNotebook(cells, changeDirectory, id))
        /\ LET directory == IF truthy(pathString(changeDirectory))
                            THEN calculateDirectoryChange(changeDirectory, cells)
                            ELSE EmptyPath
           IN injected' = Append(injected,
                                 IF truthy(pathString(directory))
                                 THEN <<directoryChangeCell(directory, id)>>
                                 ELSE <<>>)
    /\ UNCHANGED <<cells, changeDirectory, workspaceFolders, existing, interpreter>>
    /\ UNCHANGED <<pruneVars, historyVars>>

Next == TranslateToNotebook

Spec == Init /\ [][Next]_vars

(***************************************************************************)
(* Claims about export, checked under Spec.                                *)
(***************************************************************************)
IsSysInfo(c) == c.data.cell_type = "sys_info"

HasSysInfo == \E i \in 1..Len(cells) : IsSysInfo(cells[i])

\* The major version a document is stamped with, when its three places agree.
StampedVersions(doc) ==
    {doc.metadata.version,
     doc.metadata.language_info.codemirror_mode.version,
     doc.metadata.pygments_lexer[2]}

\* What the interpreter resolver's answer comes to: its major version, or 3.
ResolverVersion ==
    IF interpreter.present /\ interpreter.hasVersion
    THEN Num(interpreter.major) ELSE Num(3)

\* C1: no cell of a returned document has cell_type sys_info, whatever the
\* number and positions of the sys_info cells in the input.
C1_NoSysInfoExported ==
    \A i \in 1..Len(docs) : \A j \in 1..Len(docs[i].cells) :
        docs[i].cells[j].cell_type # "sys_info"

\* C1 witness: an export of an input that mixes sys_info cells with others.
C1_Witness ==
    /\ Len(docs) >= 1
    /\ Len(cells) >= 2
    /\ IsSysInfo(cells[1])
    /\ ~IsSysInfo(cells[2])
    /\ Len(docs[1].cells) >= 1

\* C2: when the input holds no sys_info cell, the major version stamped in the
\* metadata (version, codemirror_mode.version, the pygments_lexer suffix) is
\* the resolver's major version, and 3 when the resolver gives no interpreter
\* or no version.
C2_VersionFromResolver ==
    ~HasSysInfo =>
        \A i \in 1..Len(docs) : StampedVersions(docs[i]) = {ResolverVersion}

\* C2 witness: an export without sys_info cells, with a directory-change cell
\* injected, where the resolver answers major version 2.
C2_Witness ==
    /\ Len(docs) >= 1
    /\ Len(cells) >= 1
    /\ ~HasSysInfo
    /\ injected[1] # <<>>
    /\ interpreter = Interpreter(TRUE, 2)
    /\ docs[1].metadata.version = Num(2)

\* The version string of the first sys_info cell of the input.
FirstSysInfoVersion ==
    LET i == CHOOSE k \in 1..Len(cells) :
                 IsSysInfo(cells[k]) /\ \A j \in 1..(k - 1) : ~IsSysInfo(cells[j])
    IN cells[i].data.version

\* A version string parses to a major version: digits, then a '.'.
ParsesToMajor(v) ==
    \E k \in 2..Len(v) : v[k] = "." /\ \A j \in 1..(k - 1) : v[j] \in Digits

\* C3: when the first sys_info cell's version string does not parse to a major
\* version (no '.', or no number before the first '.'), the stamped version is
\* the resolver's major version, or 3; never a non-numeric or placeholder value.
C3_UnparsedVersionFallsBack ==
    (HasSysInfo /\ ~ParsesToMajor(FirstSysInfoVersion)) =>
        \A i \in 1..Len(docs) : StampedVersions(docs[i]) = {ResolverVersion}

\* C4: an injected directory-change cell is the first cell of the returned
\* document, with its source as built (no line stripped from it).
C4_DirectoryCellFirst ==
    \A i \in 1..Len(docs) :
        injected[i] # <<>> =>
            /\ Len(docs[i].cells) >= 1
            /\ docs[i].cells[1] = injected[i][1].data

\* C4 witness: a cell is injected in front of an input that starts with a
\* sys_info cell.
C4_Witness ==
    /\ Len(docs) >= 1
    /\ injected[1] # <<>>
    /\ Len(cells) >= 2
    /\ IsSysInfo(cells[1])
    /\ Len(docs[1].cells) = Len(cells)

\* C6: every call of export on the same inputs and resolver answers returns
\* the same document, also when a directory-change cell with a fresh id is
\* injected.
C6_ExportDeterministic ==
    \A i, j \in 1..Len(docs) : docs[i] = docs[j]

\* C6 witness: two exports that injected cells with different ids.
C6_Witness ==
    /\ Len(docs) >= 2
    /\ injected[1] # <<>>
    /\ injected[2] # <<>>
    /\ injected[1][1].id # injected[2][1].id

\* Some cell's origin file is absolute, exists and starts a workspace folder's
\* path (case apart).
SomeCellUnderRoot ==
    \E i \in 1..Len(cells) :
        /\ isAbsolute(cells[i].file)
        /\ cells[i].file \in existing
        /\ \E k \in 1..Len(workspaceFolders) :
               startsWith(toLowerCase(pathString(cells[i].file)),
                          toLowerCase(pathString(workspaceFolders[k])))

\* The relative path from the target's directory to the workspace folder found
\* is itself absolute.
RelativeIsAbsolute ==
    /\ SomeCellUnderRoot
    /\ isAbsolute(dirname(changeDirectory))
    /\ isAbsolute(relative(dirname(changeDirectory), firstWorkspaceFolder(cells)))

NoRelativeChange ==
    \/ changeDirectory = EmptyPath
    \/ Len(workspaceFolders) = 0
    \/ ~SomeCellUnderRoot
    \/ RelativeIsAbsolute

\* The input cells that are not sys_info, in order.
RECURSIVE NonSysInfo(_)
NonSysInfo(cs) ==
    IF Len(cs) = 0 THEN <<>>
    ELSE IF IsSysInfo(cs[1]) THEN NonSysInfo(Tail(cs))
    ELSE <<cs[1]>> \o NonSysInfo(Tail(cs))

\* C7: with no target path, no workspace folder, no cell with an absolute
\* existing origin file under a workspace root, or an absolute relative path,
\* export returns a document, prepends no cell, and its cells are exactly the
\* input's non-sys_info cells in their order.
C7_NoChangeNoCell ==
    NoRelativeChange =>
        \A i \in 1..Len(docs) :
            /\ injected[i] = <<>>
            /\ Len(docs[i].cells) = Len(NonSysInfo(cells))
            /\ \A j \in 1..Len(docs[i].cells) :
                   docs[i].cells[j] =
                       [NonSysInfo(cells)[j].data EXCEPT
                            !.source = pruneSource(NonSysInfo(cells)[j].data.source)]

\* C7 witness: an export to another drive than the workspace folder's, of an
\* input with a sys_info cell before a cell under the workspace root.
C7_Witness ==
    /\ Len(docs) >= 1
    /\ RelativeIsAbsolute
    /\ Len(cells) >= 2
    /\ IsSysInfo(cells[1])
    /\ Len(docs[1].cells) = 1

(***************************************************************************)
(* SpecPrune: pruneSource applied to one source, kept as one string and as *)
(* a line sequence.                                                        *)
(***************************************************************************)
MaxLineLen == 2
MaxLines == 2
MaxPrunes == 2

LineStrings == UNION {[1..k -> Char] : k \in 0..MaxLineLen}

\* The text a line sequence stands for: its lines one after the other.
RECURSIVE Flatten(_)
Flatten(a) == IF Len(a) = 0 THEN <<>> ELSE a[1] \o Flatten(Tail(a))

InitPrune ==
    /\ \E k \in 0..MaxLines : lines \in [1..k -> LineStrings]
    /\ ps = StrSource(Flatten(lines))
    /\ pa = ArrSource(lines)
    /\ prevPs = ps
    /\ prevPa = pa
    /\ n = 0
    /\ ExportIdle
    /\ HistoryIdle

\* pruneSource is called on the source in each representation.
PruneStep ==
    /\ n < MaxPrunes
    /\ prevPs' = ps
    /\ prevPa' = pa
    /\ ps' = pruneSource(ps)
    /\ pa' = pruneSource(pa)
    /\ n' = n + 1
    /\ UNCHANGED <<lines, exportVars, historyVars>>

NextPrune == PruneStep

SpecPrune == InitPrune /\ [][NextPrune]_vars

\* The first line of a source is a boundary marker.
FirstLineIsMarker(source) ==
    IF source.isArray
    THEN Len(source.arr) > 0 /\ Len(source.arr[1]) > 0 /\ source.arr[1][1] = MARK
    ELSE Len(source.str) > 0 /\ source.str[1] = MARK

\* The lines of a source: the elements of a sequence, the newline-separated
\* pieces of a string.
NumLines(source) ==
    IF source.isArray THEN Len(source.arr)
    ELSE 1 + Cardinality({i \in 1..Len(source.str) : source.str[i] = NL})

\* The text of a source.
TextOf(source) == IF source.isArray THEN Flatten(source.arr) ELSE source.str

\* C5 as stated: pruning a source whose first line is no marker changes
\* nothing, and pruning the result of a pruning changes nothing either.
C5_PruneIdempotent ==
    /\ (n >= 1 /\ ~FirstLineIsMarker(prevPs)) => ps = prevPs
    /\ (n >= 1 /\ ~FirstLineIsMarker(prevPa)) => pa = prevPa
    /\ n >= 2 => (ps = prevPs /\ pa = prevPa)

\* C5 amended: pruning a source whose first line is no marker changes nothing;
\* a pruning removes exactly the first line when that line is a marker, so a
\* second pruning removes a second line only when the line after the marker
\* is a marker too.
C5_PruneOneMarkerPerCall ==
    /\ (n >= 1 /\ ~FirstLineIsMarker(prevPs)) => ps = prevPs
    /\ (n >= 1 /\ ~FirstLineIsMarker(prevPa)) => pa = prevPa
    /\ (n >= 1 /\ FirstLineIsMarker(prevPs)) => NumLines(ps) = NumLines(prevPs) - 1
    /\ (n >= 1 /\ FirstLineIsMarker(prevPa)) => NumLines(pa) = NumLines(prevPa) - 1

\* C5 witness: a marker line was stripped by the first pruning and the second
\* pruning, of a source that no longer starts with a marker, changed nothing.
C5_Witness ==
    /\ n = 2
    /\ Len(lines) = 2
    /\ FirstLineIsMarker(ArrSource(lines))
    /\ pa = ArrSource(Tail(lines))
    /\ pa = prevPa
    /\ ps = prevPs
    /\ NumLines(ps) = NumLines(StrSource(Flatten(lines))) - 1

\* Every line keeps its terminator: it ends with a newline and holds no other.
Terminated(a) ==
    \A i \in 1..Len(a) :
        /\ Len(a[i]) >= 1
        /\ a[i][Len(a[i])] = NL
        /\ \A j \in 1..(Len(a[i]) - 1) : a[i][j] # NL

\* C10: for lines whose first is a boundary marker, pruning the source stored
\* as one string and stored as a line sequence give the same text: the
\* original without its first line, no terminator added or lost.
C10_RepresentationsAgree ==
    (n = 1 /\ Len(lines) >= 1 /\ Terminated(lines) /\ FirstLineIsMarker(ArrSource(lines)))
        => /\ TextOf(ps) = TextOf(pa)
           /\ TextOf(ps) = Flatten(Tail(lines))

(***************************************************************************)
(* SpecHistory: one InputHistory driven by any calls.                      *)
(***************************************************************************)
MaxHist == 3

Entries == {"1", "2"}

Currents == {"", "1", "5"}

InitHistory ==
    /\ HistoryIdle
    /\ ExportIdle
    /\ PruneIdle

current == History(historyStack, cursor, result)

Add ==
    \E entry \in Entries :
        /\ Len(historyStack) < MaxHist
        /\ LET after == add(current, entry)
           IN /\ historyStack' = after.stack
              /\ cursor' = after.cursor
              /\ result' = after.result
        /\ lastOp' = "add"
        /\ arg' = entry
        /\ preCursor' = cursor
        /\ addKind' = IF \E i \in 1..Len(historyStack) : historyStack[i] = entry
                      THEN "old" ELSE "new"
        /\ cursorAtAdd' = cursor
        /\ upsSinceAdd' = 0
        /\ UNCHANGED <<exportVars, pruneVars>>

CompleteUp ==
    \E c \in Currents :
        /\ LET after == completeUp(current, c)
           IN /\ historyStack' = after.stack
              /\ cursor' = after.cursor
              /\ result' = after.result
        /\ lastOp' = "completeUp"
        /\ arg' = c
        /\ preCursor' = cursor
        \* the run is counted up to MaxHist + 1: one more than any history holds
        /\ upsSinceAdd' = IF addKind = "none" THEN 0
                          ELSE IF upsSinceAdd > MaxHist THEN upsSinceAdd
                          ELSE upsSinceAdd + 1
        /\ UNCHANGED <<addKind, cursorAtAdd, exportVars, pruneVars>>

CompleteDown ==
    \E c \in Currents :
        /\ LET after == completeDown(current, c)
           IN /\ historyStack' = after.stack
              /\ cursor' = after.cursor
              /\ result' = after.result
        /\ lastOp' = "completeDown"
        /\ arg' = c
        /\ preCursor' = cursor
        /\ addKind' = "none"
        /\ upsSinceAdd' = 0
        /\ UNCHANGED <<cursorAtAdd, exportVars, pruneVars>>

NextHistory == Add \/ CompleteUp \/ CompleteDown

SpecHistory == InitHistory /\ [][NextHistory]_vars

\* C8 as stated: after any add, the k-th of the completeUp calls that follow it
\* directly returns the k-th newest entry: the first the entry just added, the
\* next ones the earlier entries, newest to oldest.
C8_AddResetsCursor ==
    (addKind # "none" /\ upsSinceAdd >= 1 /\ upsSinceAdd <= Len(historyStack))
        => result = historyStack[upsSinceAdd]

\* C8 amended: after an add of an entry that was not yet in the history, the
\* k-th of the completeUp calls that follow it directly returns the k-th
\* newest entry, whatever the cursor was before the add.
C8_AddOfNewEntryResetsCursor ==
    (addKind = "new" /\ upsSinceAdd >= 1 /\ upsSinceAdd <= Len(historyStack))
        => result = historyStack[upsSinceAdd]

\* C8 witness: an entry was added while the cursor pointed into the history,
\* and the second completeUp after it returned the entry before it.
C8_Witness ==
    /\ addKind = "new"
    /\ cursorAtAdd >= 1
    /\ upsSinceAdd = 2
    /\ Len(historyStack) >= 2
    /\ result = historyStack[2]
    /\ result # arg

\* C9 as stated: completeDown with the cursor at or beyond the newest entry
\* returns the empty string and leaves the cursor at the end.
C9_CompleteDownAtEndEmpty ==
    (lastOp = "completeDown" /\ preCursor <= 1)
        => (result = "" /\ cursor = 0)

\* C9 amended: completeDown(current) with the cursor at or beyond the newest
\* entry returns current and leaves the cursor where it was.
C9_CompleteDownAtEndReturnsCurrent ==
    (lastOp = "completeDown" /\ preCursor <= 1)
        => (result = arg /\ cursor = preCursor)

\* C9 witness: completeDown("5") at the newest entry of a history of several
\* entries returned "5".
C9_Witness ==
    /\ lastOp = "completeDown"
    /\ preCursor = 1
    /\ Len(historyStack) >= 2
    /\ arg = "5"
    /\ result = "5"
    /\ cursor = 1

====
